---- MODULE Spec2Model ----
(***************************************************************************)
(* Bitcoin CSV -> line protocol -> Telegraf pipeline.                      *)
(*   scripts/data_processor.py     bulk mode  (BitcoinDataProcessor)       *)
(*   scripts/simulate_realtime.py  simulation (BitcoinDataSimulator)       *)
(* Python strings are sequences of one-character strings, floats are       *)
(* tagged records (finite values are integers), None is a tagged record.   *)
(***************************************************************************)
EXTENDS Integers, Sequences, FiniteSets, TLC

(***************************************************************************)
(* Bounds of the model.                                                    *)
(***************************************************************************)
\* longest string handed to clean_numeric in SpecCoerce
MaxLen == 4
\* largest initial value of error_count in SpecCoerce
MaxErr == 1
\* rows of the CSV file read by one bulk run
MaxRows == 6
\* self.batch_size (data_processor.py:20 sets 1000), scaled down
batch_size == 2
\* rows of the CSV file of the simulation
MaxSimRows == 3
\* processes started one after the other on the same checkpoint file
MaxRuns == 2
\* self.time_shift, in seconds (now - 2012-01-01 10:01:00)
TimeShift == 100

(***************************************************************************)
(* Program constants.                                                      *)
(***************************************************************************)
window_size == 5
max_retries == 3
initial_retry_delay == 2
NoContent == 204

(***************************************************************************)
(* Python values.                                                          *)
(***************************************************************************)
None == [k |-> "none"]
\* a str
S(chars) == [k |-> "str", s |-> chars]
\* a finite float with the integer value n
F(n) == [k |-> "fin", n |-> n]
\* a finite float with the value h/100 (the result of round(x, 2))
R2(h) == [k |-> "fin2", n |-> h]
INF == [k |-> "inf", n |-> 0]
NAN == [k |-> "nan", n |-> 0]
\* inf, -inf or nan produced by arithmetic on a non-finite operand
NF == [k |-> "nonfinite", n |-> 0]
IsFinite(x) == x.k \in {"fin", "fin2"}
\* bool(x) for a float or None
Truthy(x) == /\ x.k # "none"
             /\ ~(IsFinite(x) /\ x.n = 0)

(***************************************************************************)
(* str.strip, str.lower, float(str), int(float), str(float).               *)
(***************************************************************************)
Whitespace == {" "}
DigitChars == {"0", "1", "2", "3", "4", "5", "6", "7", "8", "9"}

RECURSIVE LStrip(_)
LStrip(s) == IF s # <<>> /\ Head(s) \in Whitespace THEN LStrip(Tail(s)) ELSE s

RECURSIVE RStrip(_)
RStrip(s) == IF s # <<>> /\ s[Len(s)] \in Whitespace
             THEN RStrip(SubSeq(s, 1, Len(s) - 1))
             ELSE s

Strip(s) == RStrip(LStrip(s))

LowerChar(c) == CASE c = "N" -> "n"
                  [] c = "A" -> "a"
                  [] c = "I" -> "i"
                  [] c = "F" -> "f"
                  [] c = "T" -> "t"
                  [] c = "Y" -> "y"
                  [] c = "X" -> "x"
                  [] OTHER -> c

Lower(s) == [i \in 1..Len(s) |-> LowerChar(s[i])]

DigitVal(c) == CASE c = "0" -> 0 [] c = "1" -> 1 [] c = "2" -> 2 [] c = "3" -> 3
                 [] c = "4" -> 4 [] c = "5" -> 5 [] c = "6" -> 6 [] c = "7" -> 7
                 [] c = "8" -> 8 [] c = "9" -> 9

DigitChar(d) == CASE d = 0 -> "0" [] d = 1 -> "1" [] d = 2 -> "2" [] d = 3 -> "3"
                  [] d = 4 -> "4" [] d = 5 -> "5" [] d = 6 -> "6" [] d = 7 -> "7"
                  [] d = 8 -> "8" [] d = 9 -> "9"

RECURSIVE DecVal(_)
DecVal(s) == IF s = <<>> THEN 0
             ELSE 10 * DecVal(SubSeq(s, 1, Len(s) - 1)) + DigitVal(s[Len(s)])

RECURSIVE DecStr(_)
DecStr(n) == IF n < 10 THEN <<DigitChar(n)>>
             ELSE DecStr(n \div 10) \o <<DigitChar(n % 10)>>

AllIn(s, set) == \A i \in 1..Len(s) : s[i] \in set

\* the position of the first point of t, Len(t) + 1 when it has none
RECURSIVE PointAt(_, _)
PointAt(t, i) == IF i > Len(t) \/ t[i] = "." THEN i ELSE PointAt(t, i + 1)

\* the decimal literals of the model, with the point at p: digits, then
\* optionally a point and zeros (every string of the model's inputs has
\* only 0 after the point; no sign, no exponent)
IsDecimal(t, p) == /\ AllIn(SubSeq(t, 1, p - 1), DigitChars)
                   /\ AllIn(SubSeq(t, p + 1, Len(t)), {"0"})
                   /\ \E i \in 1..Len(t) : t[i] # "."

\* float of a stripped, lowered str
ParseLowered(t) ==
    IF t \in {<<"i", "n", "f">>, <<"i", "n", "f", "i", "n", "i", "t", "y">>}
    THEN [exc |-> "none", v |-> INF]
    ELSE IF t = <<"n", "a", "n">>
    THEN [exc |-> "none", v |-> NAN]
    ELSE IF IsDecimal(t, PointAt(t, 1))
    THEN [exc |-> "none", v |-> F(DecVal(SubSeq(t, 1, PointAt(t, 1) - 1)))]
    ELSE [exc |-> "ValueError", v |-> None]

\* float(chars) for a str: the value, or the exception raised
ParseFloat(chars) == ParseLowered(Lower(Strip(chars)))

\* float(x) for any field value: float(None) is a TypeError
PyFloat(x) == IF x.k = "str" THEN ParseFloat(x.s)
              ELSE [exc |-> "TypeError", v |-> None]

\* int(x) for a float
PyInt(x) == IF x.k = "fin" THEN [exc |-> "none", v |-> x.n]
            ELSE IF x.k = "nan" THEN [exc |-> "ValueError", v |-> 0]
            ELSE [exc |-> "OverflowError", v |-> 0]

\* str(x) for a float (finite values of the model are non-negative and small)
FloatStr(x) == IF x.k = "fin" THEN DecStr(x.n) \o <<".", "0">>
               ELSE IF x.k = "inf" THEN <<"i", "n", "f">>
               ELSE <<"n", "a", "n">>

(***************************************************************************)
(* State.                                                                  *)
(***************************************************************************)
VARIABLES
    mode,                    \* "bulk", "sim" or "coerce"
    env,                     \* what surrounds the run: which rows the source may
                             \* hold, the answers the sink may give, and whether
                             \* the interpreter's statistics.stdev raises on inf
    pc,                      \* position of the single thread of control
    \* BitcoinDataProcessor
    row_count, batch, processed_count, error_count,
    row_read,                \* process_file's local row: the row read last
    close_prices, volumes, high_prices, low_prices,
    \* locals of send_batch / send_data_to_telegraf
    data, attempt, retry_delay,
    \* BitcoinDataSimulator
    file,                    \* the rows of the CSV file
    pos,                     \* rows of it the reader has yielded
    store,                   \* content of last_ingested.txt (None: no file)
    last_ingested_timestamp,
    timestamp,               \* run's local: original timestamp of the line
    \* clean_numeric call of SpecCoerce
    value, ret,
    \* history
    resp,                    \* one entry per request of the current payload: was it a 204
    waits,                   \* time.sleep calls of the current payload's retry loop
    before,                  \* the counter (processed_count; error_count in
                             \* SpecCoerce) when the current call began
    result,                  \* "none", "pending", "ok", "failed": the current payload
    sent,                    \* bulk: finished payloads, in order
    no_line,                 \* bulk: numbers of the rows process_line returned None for
    slept,                   \* sim: file positions after which this run slept
                             \* for the ingestion interval
    run,                     \* number of the running process
    found,                   \* sim: content of the checkpoint file at the start of each run
    confirmed,               \* sim: file positions the sink has confirmed, all runs
    acked,                   \* sim: file positions the sink confirmed in this run, in order
    attempted,               \* sim: file positions sent at least once in this run
    skipped,                 \* sim: file positions the checkpoint test skipped in this run
    writes                   \* sim: checkpoint writes of this run, in order

vars == <<mode, env, pc, row_read, row_count, batch, processed_count, error_count,
          close_prices, volumes, high_prices, low_prices,
          data, attempt, retry_delay,
          file, pos, store, last_ingested_timestamp, timestamp,
          value, ret,
          resp, waits, before, result, sent, no_line, slept, run, found,
          confirmed, acked, attempted, skipped, writes>>

bulkVars == <<row_read, row_count, batch, processed_count,
              close_prices, volumes, high_prices, low_prices, sent, no_line>>
senderVars == <<data, attempt, retry_delay, resp, waits, before, result>>
simVars == <<file, pos, store, last_ingested_timestamp, timestamp, run,
             found, confirmed, acked, attempted, skipped, writes, slept>>
coerceVars == <<value, ret>>

(***************************************************************************)
(* BitcoinDataProcessor.clean_numeric                                      *)
(***************************************************************************)
\* not value, or value.lower() == 'nan', for the stripped value
IsBlank(s) == s = <<>> \/ Lower(s) = <<"n", "a", "n">>

\* the try body after value.strip()
CleanStripped(s) == IF IsBlank(s) THEN [exc |-> "none", v |-> F(0)] ELSE ParseFloat(s)

\* the try body: value.strip() (None has no strip), the empty / nan test,
\* float(value)
CleanNumericBody(v) ==
    IF v.k # "str"
    THEN [exc |-> "AttributeError", v |-> None]
    ELSE CleanStripped(Strip(v.s))

CleanNumericCaught == {"ValueError", "AttributeError"}

\* an except clause that also counts the empty and nan strings
CountingExcept(r, v, errors) ==
    IF r.exc = "none" /\ ~(v.k = "str" /\ r.v = F(0) /\ IsBlank(Strip(v.s)))
    THEN [raised |-> FALSE, ret |-> r.v, errors |-> errors]
    ELSE [raised |-> FALSE, ret |-> F(0), errors |-> errors + 1]

\* except (ValueError, AttributeError): count and return 0.0; r is the
\* outcome of the try body
CleanNumericExcept(r, v, errors) ==
    IF r.exc = "none"
    THEN [raised |-> FALSE, ret |-> r.v, errors |-> errors]
    ELSE IF r.exc \in CleanNumericCaught
    THEN [raised |-> FALSE, ret |-> F(0), errors |-> errors + 1]
    ELSE [raised |-> TRUE, ret |-> None, errors |-> errors]

\* [raised, ret, errors]: the value returned and self.error_count afterwards
clean_numeric(v, errors) == CleanNumericExcept(CleanNumericBody(v), v, errors)

(***************************************************************************)
(* BitcoinDataProcessor.calculate_metrics                                  *)
(***************************************************************************)
\* a window that takes the new entry at its front and drops its newest
DequeAppendLeft(d, x) == IF Len(d) >= window_size
                         THEN <<x>> \o SubSeq(d, 1, Len(d) - 1)
                         ELSE <<x>> \o d

\* deque(maxlen=window_size).append
DequeAppend(d, x) == IF Len(d) >= window_size THEN Append(Tail(d), x) ELSE Append(d, x)

AllFinite(q) == \A i \in 1..Len(q) : IsFinite(q[i])

RECURSIVE SumN(_)
SumN(q) == IF q = <<>> THEN 0 ELSE q[1].n + SumN(Tail(q))

RECURSIVE SumProd(_, _)
SumProd(p, q) == IF p = <<>> \/ q = <<>> THEN 0
                 ELSE p[1].n * q[1].n + SumProd(Tail(p), Tail(q))

MaxN(q) == CHOOSE m \in {q[i].n : i \in 1..Len(q)} : \A i \in 1..Len(q) : q[i].n <= m
MinN(q) == CHOOSE m \in {q[i].n : i \in 1..Len(q)} : \A i \in 1..Len(q) : m <= q[i].n

\* the integer nearest to a/b (b > 0), ties to the even one: round(x, 2)
\* of x = a/(100 b), counted in hundredths
RoundHalfEven(a, b) ==
    LET fl == a \div b
        r == a % b
    IN  IF 2 * r < b THEN fl
        ELSE IF 2 * r > b THEN fl + 1
        ELSE IF fl % 2 = 0 THEN fl ELSE fl + 1

\* the largest r in lo..hi with r * r <= n, by bisection
RECURSIVE ISqrtIn(_, _, _)
ISqrtIn(n, lo, hi) ==
    IF lo >= hi THEN lo
    ELSE LET mid == (lo + hi + 1) \div 2
         IN  IF mid * mid <= n THEN ISqrtIn(n, mid, hi) ELSE ISqrtIn(n, lo, mid - 1)
\* floor of the square root (n < 2^30)
ISqrt(n) == ISqrtIn(n, 0, 32767)

\* statistics.stdev of n finite closes with the sum s and the sum of
\* squares ss, rounded to 2 places, in hundredths
StdevHundredths(n, s, ss) ==
    (ISqrt((40000 * (n * ss - s * s)) \div (n * (n - 1))) + 1) \div 2

\* the gate of calculate_metrics, off by one
WindowNotReadyLate(q) == Len(q) <= window_size

\* len(self.close_prices) < self.window_size
WindowNotReady(q) == Len(q) < window_size

\* the dict calculate_metrics returns for n finite closes with the sum sumc
FiniteMetrics(cp, vs, hs, ls, n, sumc) ==
    [k |-> "dict",
     sma |-> R2(RoundHalfEven(100 * sumc, n)),
     volatility |-> IF sumc > 0
                    THEN IF AllFinite(hs) /\ AllFinite(ls)
                         THEN R2(RoundHalfEven(10000 * (MaxN(hs) - MinN(ls)) * n, sumc))
                         ELSE NF
                    ELSE R2(0),
     vwap |-> IF ~AllFinite(vs) THEN NF
              ELSE IF SumN(vs) > 0 THEN R2(RoundHalfEven(100 * SumProd(cp, vs), SumN(vs)))
              ELSE None,
     std_dev |-> IF n > 1 THEN R2(StdevHundredths(n, sumc, SumProd(cp, cp))) ELSE R2(0),
     momentum |-> IF n > 1 THEN R2(100 * (cp[n].n - cp[1].n)) ELSE R2(0)]

\* the dict returned when a close is inf and statistics.stdev returns nan
\* (the closes of the model are finite and >= 0, or +inf)
NonFiniteMetrics(cp, vs, hs, ls, n) ==
    [k |-> "dict",
     sma |-> NF,
     volatility |-> IF AllFinite(hs) /\ AllFinite(ls) THEN R2(0) ELSE NF,
     vwap |-> IF ~AllFinite(vs) THEN NF ELSE IF SumN(vs) > 0 THEN NF ELSE None,
     std_dev |-> NF,
     momentum |-> IF IsFinite(cp[n]) /\ IsFinite(cp[1])
                  THEN R2(100 * (cp[n].n - cp[1].n))
                  ELSE NF]

\* the try block raises: statistics.stdev does on non-finite closes where
\* statsRaises (CPython 3.11 raises AttributeError; older ones return nan)
MetricsRaise(cp, statsRaises) == ~AllFinite(cp) /\ statsRaises

\* None or the dict; an exception of the try block is logged and turned
\* into None
calculate_metrics(cp, vs, hs, ls, statsRaises) ==
    IF WindowNotReady(cp) THEN None
    ELSE IF MetricsRaise(cp, statsRaises) THEN None
    ELSE IF AllFinite(cp) THEN FiniteMetrics(cp, vs, hs, ls, Len(cp), SumN(cp))
    ELSE NonFiniteMetrics(cp, vs, hs, ls, Len(cp))

(***************************************************************************)
(* BitcoinDataProcessor.process_line                                       *)
(***************************************************************************)
\* seconds * 1000000000, kept as the count of seconds
Nanoseconds(seconds) == [k |-> "ns", billions |-> seconds]

NumericKeys == <<"Open", "High", "Low", "Close", "Volume">>

\* the clean_numeric calls on NumericKeys[i..5], in order; row[key] of an
\* absent key raises KeyError and the counts made so far stay
RECURSIVE CleanFields(_, _, _, _)
CleanFieldsNext(row, i, vals, c) ==
    IF c.raised THEN [exc |-> "raised", vals |-> vals, errors |-> c.errors]
    ELSE CleanFields(row, i + 1, Append(vals, c.ret), c.errors)
CleanFields(row, i, vals, errors) ==
    IF i > Len(NumericKeys) THEN [exc |-> "none", vals |-> vals, errors |-> errors]
    ELSE IF NumericKeys[i] \notin DOMAIN row
    THEN [exc |-> "KeyError", vals |-> vals, errors |-> errors]
    ELSE CleanFieldsNext(row, i, vals, clean_numeric(row[NumericKeys[i]], errors))

\* int(f) for the outcome f of float(x)
IntOfFloat(f) == IF f.exc # "none" THEN [exc |-> f.exc, v |-> 0] ELSE PyInt(f.v)

\* int(float(row['Timestamp']))
ParseTimestamp(row) ==
    IF "Timestamp" \notin DOMAIN row THEN [exc |-> "KeyError", v |-> 0]
    ELSE IntOfFloat(PyFloat(row.Timestamp))

\* the fields of the line, in the order they are written
LineFields(vals, metrics) ==
    <<<<"open", vals[1]>>, <<"high", vals[2]>>, <<"low", vals[3]>>,
      <<"close", vals[4]>>, <<"volume", vals[5]>>>>
    \o (IF metrics.k # "none"
        THEN <<<<"sma", metrics.sma>>, <<"volatility", metrics.volatility>>>>
             \o (IF Truthy(metrics.vwap) THEN <<<<"vwap", metrics.vwap>>>> ELSE <<>>)
             \o <<<<"std_dev", metrics.std_dev>>, <<"momentum", metrics.momentum>>>>
        ELSE <<>>)

\* a process_line that has put 0.0 into the windows before it fails
NoLineAfterAppend(errors) ==
    [line |-> None, metrics |-> None, error_count |-> errors + 1,
     close_prices |-> DequeAppend(close_prices, F(0)),
     volumes |-> DequeAppend(volumes, F(0)),
     high_prices |-> DequeAppend(high_prices, F(0)),
     low_prices |-> DequeAppend(low_prices, F(0))]

\* a process_line that fails without counting
NoLineUncounted(errors) ==
    [line |-> None, metrics |-> None, error_count |-> errors,
     close_prices |-> close_prices, volumes |-> volumes,
     high_prices |-> high_prices, low_prices |-> low_prices]

\* what process_line leaves when it raised inside: no line, one more error
NoLine(errors) ==
    [line |-> None, metrics |-> None, error_count |-> errors + 1,
     close_prices |-> close_prices, volumes |-> volumes,
     high_prices |-> high_prices, low_prices |-> low_prices]

\* the line built from the cleaned values, the windows and the metrics
EncodedLine(rowno, seconds, vals, errors, cp, vs, hs, ls, metrics) ==
    [line |-> [k |-> "line", row |-> rowno,
               measurement |-> "bitcoin",
               tags |-> "source=historical,market=default",
               fields |-> LineFields(vals, metrics),
               timestamp |-> Nanoseconds(seconds)],
     metrics |-> metrics, error_count |-> errors,
     close_prices |-> cp, volumes |-> vs,
     high_prices |-> hs, low_prices |-> ls]

\* update the sliding windows, calculate the metrics, build the line
WindowsAndLine(rowno, seconds, vals, errors, cp, vs, hs, ls, statsRaises) ==
    EncodedLine(rowno, seconds, vals, errors, cp, vs, hs, ls,
                calculate_metrics(cp, vs, hs, ls, statsRaises))

\* process_line after the conversions: ts is the outcome of the timestamp
\* conversion, cl that of the clean_numeric calls
ProcessConverted(rowno, ts, cl, statsRaises) ==
    IF ts.exc # "none" THEN NoLine(error_count)
    ELSE IF cl.exc # "none" THEN NoLine(cl.errors)
    ELSE WindowsAndLine(rowno, ts.v, cl.vals, cl.errors,
                        DequeAppend(close_prices, cl.vals[4]),
                        DequeAppend(volumes, cl.vals[5]),
                        DequeAppend(high_prices, cl.vals[2]),
                        DequeAppend(low_prices, cl.vals[3]),
                        statsRaises)

\* process_line on the row numbered rowno (the number is history, it tells
\* equal lines of different rows apart): the line or None, the dict of
\* calculate_metrics, and the fields of self afterwards
process_line(row, rowno, statsRaises) ==
    ProcessConverted(rowno, ParseTimestamp(row),
                     CleanFields(row, 1, <<>>, error_count), statsRaises)

(***************************************************************************)
(* The sink and the retry loop shared by send_batch and                    *)
(* send_data_to_telegraf.                                                  *)
(***************************************************************************)
\* what requests.post does: a response with a status code, or an exception
\* (requests.exceptions.RequestException)
Responses == {[exc |-> FALSE, status_code |-> NoContent],
              [exc |-> FALSE, status_code |-> 500],
              [exc |-> TRUE, status_code |-> 0]}

\* response.status_code == 204
IsSuccess(r) == ~r.exc /\ r.status_code = NoContent

\* a backoff that does not grow
SameRetryDelay(d) == d

\* retry_delay *= 2
NextRetryDelay(d) == d * 2

\* the loop goes on after a failed attempt: attempt < max_retries - 1
MoreAttempts(a) == a < max_retries - 1

\* the locals at the start of the retry loop, and the history of the payload
StartSend(payload) ==
    /\ data' = payload
    /\ attempt' = 0
    /\ retry_delay' = initial_retry_delay
    /\ resp' = <<>>
    /\ waits' = <<>>
    /\ before' = processed_count
    /\ result' = "pending"

\* the locals and the history of a call that returned are dropped when the
\* caller moves on
ForgetSend ==
    /\ data' = <<>>
    /\ attempt' = 0
    /\ retry_delay' = initial_retry_delay
    /\ resp' = <<>>
    /\ waits' = <<>>
    /\ before' = 0
    /\ result' = "none"

\* a failed attempt that is not the last: sleep, double the delay
RetryLater ==
    /\ waits' = Append(waits, retry_delay)
    /\ retry_delay' = NextRetryDelay(retry_delay)
    /\ attempt' = attempt + 1
    /\ UNCHANGED <<data, before, result>>

(***************************************************************************)
(* BitcoinDataProcessor.process_file and send_batch                        *)
(***************************************************************************)
Row(ts, o, h, l, c, v) ==
    [Timestamp |-> S(ts), Open |-> S(o), High |-> S(h), Low |-> S(l),
     Close |-> S(c), Volume |-> S(v)]

\* rows csv.DictReader may yield: a well-formed one, one with an empty
\* Volume, one with an unparseable Timestamp, one with an infinite Close
WellFormedRow == Row(<<"1">>, <<"1">>, <<"2">>, <<"1">>, <<"1">>, <<"1">>)
NoVolumeRow == Row(<<"2">>, <<"2">>, <<"3">>, <<"1">>, <<"2">>, <<>>)
BadTimestampRow == Row(<<"x">>, <<"1">>, <<"2">>, <<"1">>, <<"1">>, <<"1">>)
InfCloseRow == Row(<<"2">>, <<"1">>, <<"2">>, <<"1">>, <<"i", "n", "f">>, <<"1">>)

\* one with a Close of 0
ZeroCloseRow == Row(<<"3">>, <<"0">>, <<"0">>, <<"0">>, <<"0">>, <<"1">>)
\* one with the close c and the volume 10
CloseRow(c) == Row(<<"1">>, c, c, c, c, <<"1", "0">>)
\* rows of a file whose header has no Volume column: row["Volume"] raises
\* KeyError; in the second one the Open is unparseable as well
NoVolumeKeyRow ==
    [Timestamp |-> S(<<"1">>), Open |-> S(<<"1">>), High |-> S(<<"2">>),
     Low |-> S(<<"1">>), Close |-> S(<<"1">>)]
BadOpenNoVolumeKeyRow ==
    [Timestamp |-> S(<<"1">>), Open |-> S(<<"x">>), High |-> S(<<"2">>),
     Low |-> S(<<"1">>), Close |-> S(<<"1">>)]

\* the sources of the delivery runs and of the indicator runs
DeliveryRows == {WellFormedRow, BadTimestampRow}
EngineRows == {WellFormedRow, NoVolumeRow, BadTimestampRow, InfCloseRow}
VwapRows == {WellFormedRow, NoVolumeRow, ZeroCloseRow}
WindowRows == {CloseRow(<<c>>) : c \in {"1", "2", "3", "4", "5"}}
FaultyRows == {WellFormedRow, BadTimestampRow, NoVolumeKeyRow, BadOpenNoVolumeKeyRow}
SourceRows(name) == CASE name = "delivery" -> DeliveryRows
                      [] name = "vwap" -> VwapRows
                      [] name = "window" -> WindowRows
                      [] name = "faulty" -> FaultyRows
                      [] OTHER -> EngineRows

\* a batch that is sent only once it is over the size
BatchOverfull(b) == Len(b) > batch_size

\* len(batch) >= self.batch_size
BatchFull(b) == Len(b) >= batch_size

\* a batch that survives its send
KeptBatch(b) == b

\* batch = [] after send_batch, whatever it did
ClearedBatch(b) == <<>>

RowsOf(lines) == [i \in 1..Len(lines) |-> lines[i].row]

\* a count that grows by one per payload
DeliveredOne(count, payload) == count + 1

\* self.processed_count += len(batch)
Delivered(count, payload) == count + Len(payload)

Idle == /\ row_read = None /\ row_count = 0 /\ batch = <<>> /\ processed_count = 0
        /\ close_prices = <<>> /\ volumes = <<>>
        /\ high_prices = <<>> /\ low_prices = <<>>
        /\ data = <<>> /\ attempt = 0 /\ retry_delay = initial_retry_delay
        /\ file = <<>> /\ pos = 0 /\ store = None
        /\ last_ingested_timestamp = None /\ timestamp = None
        /\ resp = <<>> /\ waits = <<>> /\ result = "none"
        /\ sent = <<>> /\ no_line = {} /\ slept = {}
        /\ run = 1 /\ found = <<>> /\ confirmed = {}
        /\ acked = <<>> /\ attempted = {} /\ skipped = {} /\ writes = <<>>

\* a bulk run whose sink may fail
InitBulk == /\ Idle
            /\ env = [rows |-> "delivery", responses |-> Responses,
                      stats_raises |-> TRUE]
            /\ mode = "bulk" /\ pc = "read"
            /\ error_count = 0 /\ before = 0
            /\ value = None
            /\ ret = [raised |-> FALSE, ret |-> None, errors |-> 0]

\* the rest of a turn of the for loop: r is what process_line returned and
\* b the batch after `if line: batch.append(line)`
AfterProcessLine(r, b) ==
    /\ row_count' = row_count + 1
    /\ error_count' = r.error_count
    /\ close_prices' = r.close_prices
    /\ volumes' = r.volumes
    /\ high_prices' = r.high_prices
    /\ low_prices' = r.low_prices
    /\ batch' = b
    /\ no_line' = IF r.line.k = "none" THEN no_line \cup {row_count + 1} ELSE no_line
    /\ IF BatchFull(b)
       THEN /\ StartSend(b)
            /\ pc' = "send_batch"
       ELSE /\ pc' = "read"
            /\ ForgetSend

\* a batch that grows at its front
PrependLine(b, line) == IF line.k # "none" THEN <<line>> \o b ELSE b

\* if line: batch.append(line)
AppendLine(b, line) == IF line.k # "none" THEN Append(b, line) ELSE b

\* one turn of the for loop up to the send: count the row, process it,
\* append the line, and hand the batch over when it is full
ReadRow ==
    /\ mode = "bulk" /\ pc = "read"
    /\ row_count < MaxRows
    /\ \E row \in SourceRows(env.rows) :
         /\ row_read' = row
         /\ \E r \in {process_line(row, row_count + 1, env.stats_raises)} :
                AfterProcessLine(r, AppendLine(batch, r.line))
    /\ UNCHANGED <<mode, env, processed_count, sent, simVars, coerceVars>>

\* a reader's end at which nothing is left to send
NothingRemains(b) == FALSE

\* if batch: (after the loop)
Remaining(b) == b # <<>>

\* the reader is exhausted: send what remains, then the summary
EndOfFile ==
    /\ mode = "bulk" /\ pc = "read"
    /\ IF Remaining(batch)
       THEN /\ StartSend(batch)
            /\ pc' = "send_rest"
       ELSE /\ pc' = "done"
            /\ ForgetSend
    /\ UNCHANGED <<mode, env, bulkVars, error_count, simVars, coerceVars>>

\* send_batch returns: in the loop the batch is cleared (and the thread
\* sleeps 0.1 s); after the loop the summary is logged
SendBatchReturns(ok) ==
    /\ sent' = Append(sent, [rows |-> RowsOf(data), ok |-> ok])
    /\ IF pc = "send_batch"
       THEN /\ batch' = ClearedBatch(batch)
            /\ pc' = "read"
       ELSE /\ pc' = "done"
            /\ UNCHANGED batch

\* one attempt of send_batch: the POST and what follows it
PostBatch ==
    /\ mode = "bulk" /\ pc \in {"send_batch", "send_rest"}
    /\ \E r \in env.responses :
         /\ resp' = Append(resp, IsSuccess(r))
         /\ IF IsSuccess(r)
            THEN /\ processed_count' = Delivered(processed_count, data)
                 /\ result' = "ok"
                 /\ SendBatchReturns(TRUE)
                 /\ UNCHANGED <<data, attempt, retry_delay, waits, before>>
            ELSE IF MoreAttempts(attempt)
            THEN /\ RetryLater
                 /\ UNCHANGED <<pc, batch, processed_count, sent>>
            ELSE /\ result' = "failed"
                 /\ SendBatchReturns(FALSE)
                 /\ UNCHANGED <<processed_count, data, attempt, retry_delay,
                                waits, before>>
    /\ UNCHANGED <<mode, env, row_read, row_count, error_count, close_prices,
                   volumes, high_prices, low_prices, no_line, simVars, coerceVars>>

NextBulk == ReadRow \/ EndOfFile \/ PostBatch

SpecBulk == InitBulk /\ [][NextBulk]_vars

\* a bulk run over the richer rows, with a sink that always answers 204
InitEngine == /\ Idle
              /\ env \in [rows : {"engine"},
                          responses : {{r \in Responses : IsSuccess(r)}},
                          stats_raises : BOOLEAN]
              /\ mode = "bulk" /\ pc = "read"
              /\ error_count = 0 /\ before = 0
              /\ value = None
              /\ ret = [raised |-> FALSE, ret |-> None, errors |-> 0]

SpecEngine == InitEngine /\ [][NextBulk]_vars

\* the start of a bulk run over the source named rows with a sink that
\* gives the answers in responses
InitBulkOver(rows, responses) ==
    /\ Idle
    /\ env = [rows |-> rows, responses |-> responses, stats_raises |-> TRUE]
    /\ mode = "bulk" /\ pc = "read"
    /\ error_count = 0 /\ before = 0
    /\ value = None
    /\ ret = [raised |-> FALSE, ret |-> None, errors |-> 0]

\* a bulk run over rows with zero closes and zero volumes, with a sink that
\* always answers 204
InitVwap == InitBulkOver("vwap", {r \in Responses : IsSuccess(r)})
SpecVwap == InitVwap /\ [][NextBulk]_vars

\* a bulk run over one of two files, with a sink that always answers 204:
\* one with the closes 1 to 5 and volumes of 10, one with zero closes and
\* zero volumes
InitWindow == \E rows \in {"window", "vwap"} :
                 InitBulkOver(rows, {r \in Responses : IsSuccess(r)})
SpecWindow == InitWindow /\ [][NextBulk]_vars

\* a bulk run over rows that lack a key or have a bad timestamp, with a
\* sink that may fail
InitFaulty == InitBulkOver("faulty", Responses)
SpecFaulty == InitFaulty /\ [][NextBulk]_vars

(***************************************************************************)
(* BitcoinDataSimulator                                                    *)
(***************************************************************************)
\* a <= b on floats
FloatLE(a, b) == IF a.k = "nan" \/ b.k = "nan" THEN FALSE
                 ELSE IF b.k = "inf" THEN TRUE
                 ELSE IF a.k = "inf" THEN FALSE
                 ELSE a.n <= b.n

\* load_last_ingested_timestamp: None when the file does not exist or its
\* content is no float
LoadedFloat(f) == IF f.exc = "none" THEN f.v ELSE None
load_last_ingested_timestamp(content) ==
    IF content.k = "none" THEN None ELSE LoadedFloat(ParseFloat(Strip(content.s)))

\* save_last_ingested_timestamp: the content written, str(timestamp)
save_last_ingested_timestamp(ts) == S(FloatStr(ts))

\* self.last_ingested_timestamp and original_timestamp <= self.last_ingested_timestamp
ShouldSkip(last, original) == Truthy(last) /\ FloatLE(original, last)

\* what create_line_protocol does: it returns a bare None ("none", with
\* why: "skip" or "missing"), returns a pair ("pair"; the line may be None),
\* or raises past its except clause ("raise")
BareNone(why) == [kind |-> "none", why |-> why, line |-> None, timestamp |-> None]
NonePair == [kind |-> "pair", why |-> "except", line |-> None, timestamp |-> None]
Raises(exc) == [kind |-> "raise", why |-> exc, line |-> None, timestamp |-> None]

\* float(row[k]) for NumericKeys[i..5], in order, up to the first exception
RECURSIVE SimFields(_, _, _)
SimFieldsNext(row, i, vals, f) ==
    IF f.exc # "none" THEN [exc |-> f.exc, vals |-> vals]
    ELSE SimFields(row, i + 1, Append(vals, f.v))
SimFields(row, i, vals) ==
    IF i > Len(NumericKeys) THEN [exc |-> "none", vals |-> vals]
    ELSE SimFieldsNext(row, i, vals, PyFloat(row[NumericKeys[i]]))

\* a pair that carries the shifted timestamp of the line
ShiftedPair(rowno, original, fl) ==
    IF fl.exc = "ValueError" THEN NonePair
    ELSE IF fl.exc # "none" THEN Raises(fl.exc)
    ELSE [kind |-> "pair", why |-> "line",
          line |-> [k |-> "line", row |-> rowno,
                    measurement |-> "bitcoin", tags |-> "source=csv",
                    fields |-> <<<<"Open", fl.vals[1]>>, <<"High", fl.vals[2]>>,
                                 <<"Low", fl.vals[3]>>, <<"Close", fl.vals[4]>>,
                                 <<"Volume", fl.vals[5]>>>>,
                    timestamp |-> Nanoseconds(original.n + TimeShift)],
          timestamp |-> F(original.n + TimeShift)]

\* the pair returned: the line and the original timestamp
LineAndTimestamp(rowno, original, fl) ==
    IF fl.exc = "ValueError" THEN NonePair
    ELSE IF fl.exc # "none" THEN Raises(fl.exc)
    ELSE [kind |-> "pair", why |-> "line",
          line |-> [k |-> "line", row |-> rowno,
                    measurement |-> "bitcoin", tags |-> "source=csv",
                    fields |-> <<<<"Open", fl.vals[1]>>, <<"High", fl.vals[2]>>,
                                 <<"Low", fl.vals[3]>>, <<"Close", fl.vals[4]>>,
                                 <<"Volume", fl.vals[5]>>>>,
                    timestamp |-> Nanoseconds(original.n + TimeShift)],
          timestamp |-> original]

\* create_line_protocol after float(row["Timestamp"]), whose outcome is f:
\* the checkpoint test, datetime.fromtimestamp (OverflowError for inf,
\* ValueError for nan), the test for the keys, the fields
CreateFromTimestamp(row, rowno, last, f) ==
    IF f.exc = "ValueError" THEN NonePair
    ELSE IF f.exc # "none" THEN Raises(f.exc)
    ELSE IF ShouldSkip(last, f.v) THEN BareNone("skip")
    ELSE IF f.v.k = "inf" THEN Raises("OverflowError")
    ELSE IF f.v.k = "nan" THEN NonePair
    ELSE IF \E i \in 1..Len(NumericKeys) : NumericKeys[i] \notin DOMAIN row
    THEN BareNone("missing")
    ELSE LineAndTimestamp(rowno, f.v, SimFields(row, 1, <<>>))

\* create_line_protocol on the row numbered rowno
create_line_protocol(row, rowno, last) ==
    IF "Timestamp" \notin DOMAIN row THEN NonePair
    ELSE CreateFromTimestamp(row, rowno, last, PyFloat(row.Timestamp))

\* run saves the checkpoint whatever the send returned
SaveAlways(sentOk) == TRUE

\* if self.send_data_to_telegraf(line_protocol): save
SaveAfter(sentOk) == sentOk

\* rows of the simulation's source: timestamps 0, 1, 2 and an unparseable one
SimRow(ts) == Row(ts, <<"1">>, <<"2">>, <<"1">>, <<"1">>, <<"1">>)
SimRows == {SimRow(<<"0">>), SimRow(<<"1">>), SimRow(<<"2">>), SimRow(<<"x">>)}

RECURSIVE FilesUpTo(_)
FilesUpTo(n) == IF n = 0 THEN {<<>>}
                ELSE LET shorter == FilesUpTo(n - 1)
                     IN  shorter \cup {Append(f, r) : f \in {g \in shorter : Len(g) = n - 1},
                                                      r \in SimRows}

\* contents of last_ingested.txt at the start: no file, "0.0", "1.0", junk
InitialStores == {None, S(<<"0", ".", "0">>), S(<<"1", ".", "0">>), S(<<"x">>)}

InitSim == /\ row_read = None /\ row_count = 0 /\ batch = <<>> /\ processed_count = 0
           /\ close_prices = <<>> /\ volumes = <<>>
           /\ high_prices = <<>> /\ low_prices = <<>>
           /\ data = <<>> /\ attempt = 0 /\ retry_delay = initial_retry_delay
           /\ resp = <<>> /\ waits = <<>> /\ before = 0 /\ result = "none"
           /\ sent = <<>> /\ no_line = {} /\ error_count = 0
           /\ value = None
           /\ ret = [raised |-> FALSE, ret |-> None, errors |-> 0]
           /\ env = [rows |-> "simulation", responses |-> Responses,
                     stats_raises |-> TRUE]
           /\ mode = "sim" /\ pc = "next"
           /\ file \in FilesUpTo(MaxSimRows) \ {<<>>}
           /\ pos = 0
           /\ store \in InitialStores
           /\ last_ingested_timestamp = load_last_ingested_timestamp(store)
           /\ timestamp = None
           /\ run = 1 /\ found = <<store>> /\ confirmed = {} /\ acked = <<>>
           /\ attempted = {} /\ skipped = {} /\ writes = <<>> /\ slept = {}

\* the turn of the loop reaches time.sleep(self.ingestion_interval) without a
\* send: create_line_protocol returned a pair and its line is None
SleepsWithoutLine(c) == c.kind = "pair" /\ c.line.k = "none"

\* the rest of a turn of run's loop for what create_line_protocol did:
\* unpacking a bare None raises TypeError, which like any exception is
\* logged by the loop's except clause; a pair without a line is slept over;
\* a line is handed to send_data_to_telegraf
AfterCreate(c) ==
    /\ pos' = pos + 1
    /\ skipped' = IF c.kind = "none" /\ c.why = "skip" THEN skipped \cup {pos + 1} ELSE skipped
    /\ IF c.kind = "pair" /\ c.line.k # "none"
       THEN /\ StartSend(<<c.line>>)
            /\ timestamp' = c.timestamp
            /\ attempted' = attempted \cup {pos + 1}
            /\ pc' = "send_data"
       ELSE /\ ForgetSend
            /\ timestamp' = timestamp
            /\ attempted' = attempted
            /\ pc' = "next"
    /\ slept' = IF SleepsWithoutLine(c) THEN slept \cup {pos + 1} ELSE slept

\* one turn of the for loop of run, up to the send
NextRecord ==
    /\ mode = "sim" /\ pc = "next"
    /\ pos < Len(file)
    /\ \E c \in {create_line_protocol(file[pos + 1], pos + 1, last_ingested_timestamp)} :
         AfterCreate(c)
    /\ UNCHANGED <<mode, env, file, store, last_ingested_timestamp, run, found,
                   confirmed, acked, writes, bulkVars, error_count, coerceVars>>

\* the reader is exhausted
EndOfSource ==
    /\ mode = "sim" /\ pc = "next"
    /\ pos = Len(file)
    /\ pc' = "done"
    /\ UNCHANGED <<mode, env, simVars, senderVars, bulkVars, error_count, coerceVars>>

\* send_data_to_telegraf returned sentOk: save the checkpoint or warn, then
\* sleep for the ingestion interval
SendDataReturns(sentOk) ==
    /\ pc' = "next"
    /\ slept' = slept \cup {pos}
    /\ IF SaveAfter(sentOk)
       THEN /\ store' = save_last_ingested_timestamp(timestamp)
            /\ writes' = Append(writes, [pos |-> pos, content |-> store'])
       ELSE UNCHANGED <<store, writes>>

\* one attempt of send_data_to_telegraf: the POST and what follows it
PostData ==
    /\ mode = "sim" /\ pc = "send_data"
    /\ \E r \in env.responses :
         /\ resp' = Append(resp, IsSuccess(r))
         /\ IF IsSuccess(r)
            THEN /\ result' = "ok"
                 /\ confirmed' = confirmed \cup {pos}
                 /\ acked' = Append(acked, pos)
                 /\ SendDataReturns(TRUE)
                 /\ UNCHANGED <<data, attempt, retry_delay, waits, before>>
            ELSE IF MoreAttempts(attempt)
            THEN /\ RetryLater
                 /\ UNCHANGED <<pc, store, writes, confirmed, acked, slept>>
            ELSE /\ result' = "failed"
                 /\ SendDataReturns(FALSE)
                 /\ UNCHANGED <<confirmed, acked, data, attempt, retry_delay,
                                waits, before>>
    /\ UNCHANGED <<mode, env, file, pos, last_ingested_timestamp, timestamp, run,
                   found, attempted, skipped, bulkVars, error_count, coerceVars>>

\* the process is stopped, wherever it is, and a new one is started on the
\* same source and the same checkpoint file
Restart ==
    /\ mode = "sim"
    /\ run < MaxRuns
    /\ run' = run + 1
    /\ last_ingested_timestamp' = load_last_ingested_timestamp(store)
    /\ found' = Append(found, store)
    /\ pos' = 0
    /\ timestamp' = None
    /\ acked' = <<>>
    /\ attempted' = {}
    /\ skipped' = {}
    /\ writes' = <<>>
    /\ slept' = {}
    /\ ForgetSend
    /\ pc' = "next"
    /\ UNCHANGED <<mode, env, file, store, confirmed, bulkVars, error_count, coerceVars>>

NextSim == NextRecord \/ EndOfSource \/ PostData \/ Restart

SpecSim == InitSim /\ [][NextSim]_vars

\* the simulation started where no checkpoint file exists yet
InitFresh == InitSim /\ store = None
SpecFresh == InitFresh /\ [][NextSim]_vars

\* either program, from its start
Init == InitBulk \/ InitSim
Next == NextBulk \/ NextSim
Spec == Init /\ [][Next]_vars

(***************************************************************************)
(* SpecCoerce: clean_numeric applied to one input.                         *)
(***************************************************************************)
CoerceAlphabet == {"1", "0", " ", "n", "a", "N", "A", "x"}

RECURSIVE StringsUpTo(_)
StringsUpTo(n) == IF n = 0 THEN {<<>>}
                  ELSE LET shorter == StringsUpTo(n - 1)
                       IN  shorter \cup {Append(t, c) : t \in {u \in shorter : Len(u) = n - 1},
                                                        c \in CoerceAlphabet}

\* every str over the alphabet, "inf" and "Infinity", and the None that
\* csv.DictReader puts in a short row
CoerceInputs == {S(t) : t \in StringsUpTo(MaxLen)}
                \cup {S(<<"i", "n", "f">>), S(<<"I", "n", "f", "i", "n", "i", "t", "y">>), None}

InitCoerce == /\ Idle
              /\ env = [rows |-> "none", responses |-> {}, stats_raises |-> TRUE]
              /\ mode = "coerce" /\ pc = "call"
              /\ value \in CoerceInputs
              /\ error_count \in 0..MaxErr
              /\ before = error_count
              /\ ret = [raised |-> FALSE, ret |-> None, errors |-> error_count]

CallCleanNumeric ==
    /\ mode = "coerce" /\ pc = "call"
    /\ ret' = clean_numeric(value, error_count)
    /\ error_count' = ret'.errors
    /\ pc' = "returned"
    /\ UNCHANGED <<mode, env, value, bulkVars, senderVars, simVars>>

NextCoerce == CallCleanNumeric

SpecCoerce == InitCoerce /\ [][NextCoerce]_vars

(***************************************************************************)
(* Properties.                                                             *)
(***************************************************************************)
Sending == pc \in {"send_batch", "send_rest", "send_data"}
LastAnswer == resp[Len(resp)]
FailedAnswers == Cardinality({i \in 1..Len(resp) : ~resp[i]})

\* C1: in both modes, when the sink fails the first k < 3 attempts for a
\* payload and then answers 204, exactly k + 1 requests were made for it,
\* the waits between them were 2 s then 4 s (starting at 2 s for every
\* payload), no request follows the 204, and the payload is delivered:
\* processed_count grew by the batch length (bulk), the checkpoint of the
\* record was saved because the send returned True (simulation).
C1_RetryThenSuccess ==
    /\ \A i \in 1..(Len(resp) - 1) : ~resp[i]
    /\ Sending => waits = SubSeq(<<2, 4>>, 1, Len(resp))
    /\ (resp # <<>> /\ LastAnswer) =>
          /\ ~Sending
          /\ FailedAnswers < 3
          /\ Len(resp) = FailedAnswers + 1
          /\ waits = SubSeq(<<2, 4>>, 1, FailedAnswers)
          /\ mode = "bulk" => processed_count = before + Len(data)
          /\ mode = "sim" => /\ writes # <<>>
                             /\ writes[Len(writes)].pos = data[1].row
                             /\ acked # <<>> /\ acked[Len(acked)] = data[1].row

\* a payload delivered at its third request, after waits of 2 s and 4 s
C1_Witness ==
    /\ mode = "bulk"
    /\ resp = <<FALSE, FALSE, TRUE>>
    /\ waits = <<2, 4>>
    /\ processed_count = before + Len(data)
    /\ Len(data) = batch_size

RowSet(rows) == {rows[i] : i \in 1..Len(rows)}

\* C2: in bulk mode, when all 3 attempts for a batch fail the batch is
\* dropped: exactly 3 requests were made for it, processed_count is
\* unchanged, none of its lines is in the accumulator or in any later
\* payload, and the run is back at reading rows for the next batch.
C2_ExhaustedBatchDropped ==
    mode = "bulk" =>
       /\ (Len(resp) = 3 /\ \A i \in 1..3 : ~resp[i]) =>
             /\ ~Sending
             /\ processed_count = before
             /\ sent # <<>> /\ ~sent[Len(sent)].ok
             /\ sent[Len(sent)].rows = RowsOf(data)
             /\ pc = "read" => batch = <<>>
             /\ pc # "read" => pc = "done"
       /\ \A i \in 1..Len(sent) :
             ~sent[i].ok =>
                /\ \A j \in (i + 1)..Len(sent) :
                      RowSet(sent[i].rows) \cap RowSet(sent[j].rows) = {}
                /\ pc # "done" => RowSet(sent[i].rows) \cap RowSet(RowsOf(batch)) = {}
                /\ Sending => RowSet(sent[i].rows) \cap RowSet(RowsOf(data)) = {}

\* a batch was dropped after 3 failed requests and the next one was
\* accumulated, sent and accepted
C2_Witness ==
    /\ mode = "bulk"
    /\ Len(sent) >= 2
    /\ ~sent[1].ok /\ Len(sent[1].rows) = batch_size
    /\ sent[2].ok /\ Len(sent[2].rows) = batch_size
    /\ processed_count = batch_size

AllDelivered == \A i \in 1..Len(sent) : sent[i].ok

\* C3: in bulk mode with batch size B, when the N records read were all
\* well-formed (no error counted) and every payload was accepted, as with
\* a sink that always succeeds, the run ends with exactly ceil(N/B)
\* payloads, each of B lines except a last one of N mod B lines when that
\* is not 0, and with processed_count = N; on the way there are N div B
\* payloads of B lines.
C3_BatchesOfWellFormedRun ==
    (mode = "bulk" /\ error_count = 0 /\ AllDelivered) =>
       /\ pc = "read" =>
             /\ Len(sent) = row_count \div batch_size
             /\ \A i \in 1..Len(sent) : Len(sent[i].rows) = batch_size
             /\ processed_count = batch_size * (row_count \div batch_size)
             /\ Len(batch) = row_count % batch_size
       /\ pc = "done" =>
             /\ Len(sent) = (row_count + batch_size - 1) \div batch_size
             /\ \A i \in 1..(Len(sent) - 1) : Len(sent[i].rows) = batch_size
             /\ sent # <<>> =>
                   Len(sent[Len(sent)].rows) =
                      IF row_count % batch_size # 0 THEN row_count % batch_size
                      ELSE batch_size
             /\ processed_count = row_count

\* a finished run of well-formed records: two full payloads and a partial one
C3_Witness ==
    /\ mode = "bulk" /\ pc = "done"
    /\ error_count = 0 /\ AllDelivered
    /\ row_count > 2 * batch_size
    /\ row_count % batch_size # 0
    /\ Len(sent) = 3
    /\ processed_count = row_count

\* the original timestamp of the row at position p of the source
OriginalTimestamp(p) == ParseFloat(file[p].Timestamp.s)

\* C4: in simulation mode the checkpoint store is written only in a step in
\* which the sink answers 204 to the request for that same record: never
\* before a send, during retries or after a send whose retries were
\* exhausted.
C4_WriteOnlyAfterConfirm ==
    [][(mode = "sim" /\ (store' # store \/ Len(writes') > Len(writes))) =>
          /\ pc = "send_data"
          /\ resp' = Append(resp, TRUE)
          /\ pos \in attempted
          /\ writes' = Append(writes, [pos |-> pos, content |-> store'])
          /\ store' = S(FloatStr(OriginalTimestamp(pos).v))]_vars

\* a checkpoint was written in a run in which another send was given up
C4_Witness ==
    /\ mode = "sim"
    /\ writes # <<>>
    /\ Cardinality(attempted) > Len(acked)
    /\ result = "failed"

\* the timestamps of the source parse as finite floats and strictly increase
StrictlyIncreasing(f) ==
    /\ \A p \in 1..Len(f) : ParseFloat(f[p].Timestamp.s).exc = "none"
                            /\ ParseFloat(f[p].Timestamp.s).v.k = "fin"
    /\ \A p \in 1..(Len(f) - 1) :
          ParseFloat(f[p].Timestamp.s).v.n < ParseFloat(f[p + 1].Timestamp.s).v.n

\* C5: simulation mode never skips prematurely on restart: for a source
\* with strictly increasing timestamps (and no checkpoint file before the
\* first run), whenever a run is stopped and a new one starts from the
\* persisted checkpoint, every record the new run skips was confirmed by
\* the sink in an earlier run.
C5_SkipsOnlyConfirmed ==
    (mode = "sim" /\ StrictlyIncreasing(file) /\ found[1] = None) =>
       skipped \subseteq confirmed

\* the checkpoint this run loaded at startup, None when there was none
LoadedAtStartup == load_last_ingested_timestamp(found[run])

\* C6: in simulation mode a record is skipped if and only if a checkpoint
\* was loaded at startup (any value, 0.0 included) and the record's original
\* timestamp is <= it; a skipped record is never sent, and every other
\* record (all of them when no checkpoint was loaded) is encoded and sent.
C6_SkipIffCheckpointLoaded ==
    mode = "sim" =>
       \A p \in 1..pos :
          OriginalTimestamp(p).exc = "none" =>
             /\ (p \in skipped) <=>
                   (LoadedAtStartup # None
                    /\ FloatLE(OriginalTimestamp(p).v, LoadedAtStartup))
             /\ p \in skipped => p \notin attempted
             /\ p \notin skipped => p \in attempted

\* the value of the persisted checkpoint, None when there is none
Checkpoint == load_last_ingested_timestamp(store)

\* C7: in simulation mode, once the checkpoint has a value, loaded at
\* startup or written after a confirmed delivery during the current run,
\* every record processed afterwards whose timestamp is <= the checkpoint
\* is skipped.
C7_OnceSetLaterRecordsSkipped ==
    [][(/\ mode = "sim" /\ pc = "next" /\ pos' = pos + 1
        /\ Checkpoint # None
        /\ OriginalTimestamp(pos + 1).exc = "none"
        /\ FloatLE(OriginalTimestamp(pos + 1).v, Checkpoint))
       => (pos + 1) \in skipped']_vars

BlankInput(v) == v.k = "str" /\ (Strip(v.s) = <<>> \/ Lower(Strip(v.s)) = <<"n", "a", "n">>)
FloatInput(v) == v.k = "str" /\ ~BlankInput(v) /\ ParseFloat(v.s).exc = "none"

\* C9 as claimed: clean_numeric never raises; a string that parses as a
\* float gives that float; an empty, whitespace-only or "NaN" (any case)
\* string gives 0.0 and the error counter grows by exactly one; any other
\* unparseable input gives 0.0 and the error counter grows by exactly one.
C9_AsClaimed ==
    (mode = "coerce" /\ pc = "returned") =>
       /\ ~ret.raised
       /\ FloatInput(value) => ret.ret = ParseFloat(value.s).v
       /\ BlankInput(value) => ret.ret = F(0) /\ error_count = before + 1
       /\ (~FloatInput(value) /\ ~BlankInput(value)) =>
             ret.ret = F(0) /\ error_count = before + 1

\* C9 amended: clean_numeric never raises; a string that parses as a float
\* gives that float and leaves the error counter; an empty, whitespace-only
\* or "NaN" (any case) string gives 0.0 and leaves the error counter; any
\* other input (an unparseable string, None) gives 0.0 and the error
\* counter grows by exactly one.
C9_CleanNumeric ==
    (mode = "coerce" /\ pc = "returned") =>
       /\ ~ret.raised
       /\ FloatInput(value) => ret.ret = ParseFloat(value.s).v /\ error_count = before
       /\ BlankInput(value) => ret.ret = F(0) /\ error_count = before
       /\ (~FloatInput(value) /\ ~BlankInput(value)) =>
             ret.ret = F(0) /\ error_count = before + 1

\* " NaN" was cleaned to 0.0 and no error was counted
C9_Witness ==
    /\ mode = "coerce" /\ pc = "returned"
    /\ value = S(<<" ", "N", "a", "N">>)
    /\ ret.ret = F(0)
    /\ error_count = before

\* the lines produced so far: those of the finished payloads and those in
\* the accumulator (after the last send the accumulator is not cleared)
RECURSIVE LinesIn(_)
LinesIn(payloads) == IF payloads = <<>> THEN 0
                     ELSE Len(payloads[1].rows) + LinesIn(Tail(payloads))
Ingested == LinesIn(sent) + (IF pc = "done" THEN 0 ELSE Len(batch))

\* the row just read was ingested: its line is the last of the accumulator
JustIngested == /\ mode = "bulk" /\ pc \in {"read", "send_batch"}
                /\ batch # <<>> /\ batch[Len(batch)].row = row_count

FieldNames(line) == [i \in 1..Len(line.fields) |-> line.fields[i][1]]
BaseNames == <<"open", "high", "low", "close", "volume">>
HasIndicators(line) ==
    FieldNames(line) \in {BaseNames \o <<"sma", "volatility", "vwap", "std_dev", "momentum">>,
                          BaseNames \o <<"sma", "volatility", "std_dev", "momentum">>}

\* the snapshot of the record just ingested
Snapshot == calculate_metrics(close_prices, volumes, high_prices, low_prices,
                              env.stats_raises)

\* C10 as claimed: no snapshot for the first 4 records ingested into the
\* windows, a snapshot for the 5th and for every later one, and the line
\* of bulk mode carries indicator fields exactly for those records.
C10_AsClaimed ==
    JustIngested =>
       /\ Ingested < 5 => Snapshot = None /\ FieldNames(batch[Len(batch)]) = BaseNames
       /\ Ingested >= 5 => Snapshot # None /\ HasIndicators(batch[Len(batch)])

\* the window holds an infinite close and this interpreter's
\* statistics.stdev raises on it
ComputationRaises == env.stats_raises /\ \E i \in 1..Len(close_prices) : close_prices[i] = INF

\* C10 amended: no snapshot for the first 4 records ingested into the
\* windows; for the 5th and every later one a snapshot unless the
\* indicator computation raises (statistics.stdev on a window with an
\* infinite close), and none when it raises; the line of bulk mode carries
\* indicator fields exactly for the records that got a snapshot.
C10_SnapshotFromFifthRecord ==
    JustIngested =>
       /\ Len(close_prices) = (IF Ingested < 5 THEN Ingested ELSE 5)
       /\ Ingested < 5 => Snapshot = None
       /\ (Ingested >= 5 /\ ~ComputationRaises) => Snapshot # None
       /\ (Ingested >= 5 /\ ComputationRaises) => Snapshot = None
       /\ Snapshot = None => FieldNames(batch[Len(batch)]) = BaseNames
       /\ Snapshot # None => HasIndicators(batch[Len(batch)])

\* the 6th ingested record got a snapshot and its line the indicator fields
C10_Witness ==
    /\ JustIngested
    /\ Ingested = 6
    /\ Snapshot # None
    /\ HasIndicators(batch[Len(batch)])

\* the line of the record just ingested has a field of that name
HasField(name) == \E i \in 1..Len(batch[Len(batch)].fields) :
                     batch[Len(batch)].fields[i][1] = name

\* C11: a bulk-mode line that carries a snapshot has the vwap field if and
\* only if the snapshot's vwap is not None, which is when the volumes of
\* the window sum to more than 0 (a vwap equal to 0 included); sma,
\* volatility, std_dev and momentum are there in that order either way.
C11_VwapIffNonNull ==
    (JustIngested /\ Snapshot # None) =>
       /\ HasIndicators(batch[Len(batch)])
       /\ Snapshot.vwap # None <=> SumN(volumes) > 0
       /\ HasField("vwap") <=> Snapshot.vwap # None

\* the row numbers of the finished payloads, in the order they were sent
RECURSIVE SentRows(_)
SentRows(payloads) == IF payloads = <<>> THEN <<>>
                      ELSE payloads[1].rows \o SentRows(Tail(payloads))

Increasing(q) == \A i \in 1..(Len(q) - 1) : q[i] < q[i + 1]

\* C12: records are delivered in source order: the lines of every payload
\* are in the order of their source records, the payloads are sent one at
\* a time in the order they were filled (every line of a payload comes
\* from a later record than every line of the payloads before it), every
\* request is for the one current payload, and a payload is left only when
\* its attempts have ended, by a 204 or by the third failure.
C12_SourceOrder ==
    /\ mode = "bulk" =>
          /\ Increasing(SentRows(sent) \o (IF pc = "done" THEN <<>> ELSE RowsOf(batch)))
          /\ Sending => data = batch
          /\ pc = "done" /\ sent # <<>> => SentRows(sent)[Len(SentRows(sent))] <= row_count
    /\ mode = "sim" =>
          /\ Increasing(acked)
          /\ \A i \in 1..Len(acked) : acked[i] <= pos
          /\ Sending => /\ Len(data) = 1 /\ data[1].row = pos
                        /\ \A i \in 1..Len(acked) : acked[i] < pos
    /\ (resp # <<>> /\ ~Sending) => (LastAnswer \/ Len(resp) = max_retries)
    /\ resp # <<>> => result # "none"

\* a third payload is being retried after the first was dropped and the
\* second accepted
C12_Witness ==
    /\ mode = "bulk" /\ pc = "send_batch"
    /\ Len(sent) = 2 /\ ~sent[1].ok /\ sent[2].ok
    /\ resp = <<FALSE>>
    /\ RowsOf(data)[1] > sent[2].rows[Len(sent[2].rows)]

\* the retry policy was applied in full to the current payload: it ended
\* with a 204 after at most two failures, or with three failures, and the
\* waits between the requests were 2 s and 4 s
FullyTried ==
    /\ resp # <<>>
    /\ \A i \in 1..(Len(resp) - 1) : ~resp[i]
    /\ waits = SubSeq(<<2, 4>>, 1, Len(resp) - 1)
    /\ \/ result = "ok" /\ LastAnswer
       \/ result = "failed" /\ ~LastAnswer /\ Len(resp) = max_retries

\* C13: in bulk mode, when the input ends with a non-empty partial batch,
\* that batch is sent with the full retry policy before the run completes
\* (the summary is produced): at completion every line produced is in a
\* payload that was sent, and the partial batch is the last payload, ended
\* by a 204 or by three failed requests; also after dropped batches.
C13_FinalPartialFlush ==
    (mode = "bulk" /\ pc = "done") =>
       /\ \A r \in 1..row_count :
             r \notin no_line => \E i \in 1..Len(SentRows(sent)) : SentRows(sent)[i] = r
       /\ batch # <<>> =>
             /\ Len(batch) < batch_size
             /\ sent # <<>> /\ sent[Len(sent)].rows = RowsOf(batch)
             /\ data = batch
             /\ FullyTried
             /\ sent[Len(sent)].ok <=> result = "ok"

\* the run completed after a partial batch that was accepted at its third
\* request, a batch before it having been dropped
C13_Witness ==
    /\ mode = "bulk" /\ pc = "done"
    /\ Len(sent) >= 2 /\ ~sent[1].ok
    /\ batch # <<>> /\ Len(batch) < batch_size
    /\ sent[Len(sent)].rows = RowsOf(batch) /\ sent[Len(sent)].ok
    /\ resp = <<FALSE, FALSE, TRUE>>

\* the records this run is through with: all up to the reader's position,
\* but the one being sent
Passed == {p \in 1..pos : p < pos \/ pc # "send_data"}

\* C14: in simulation mode the run sleeps for the ingestion interval
\* between every two consecutive source records, whatever became of the
\* earlier one (confirmed, failed after all retries, or not sent): every
\* record the run is through with was followed by the sleep.
C14_SleepsBetweenRecords == mode = "sim" => Passed \subseteq slept

\* a turn of process_file's loop: a row is read and processed
ReadsRow == mode = "bulk" /\ pc = "read" /\ pc' \in {"read", "send_batch"}

\* the record lacks a required key, or its timestamp cannot be parsed
LacksKey(r) == \E i \in 1..Len(NumericKeys) : NumericKeys[i] \notin DOMAIN r
BadTimestamp(r) == \/ "Timestamp" \notin DOMAIN r
                   \/ r.Timestamp.k # "str"
                   \/ ParseFloat(r.Timestamp.s).exc # "none"
                   \/ ParseFloat(r.Timestamp.s).v.k # "fin"
Malformed(r) == LacksKey(r) \/ BadTimestamp(r)

\* the fields the coercer counts as errors before process_line reaches the
\* first missing key (none when the timestamp fails: it is converted first)
FirstMissing(r) == CHOOSE i \in 1..Len(NumericKeys) :
                      /\ NumericKeys[i] \notin DOMAIN r
                      /\ \A j \in 1..(i - 1) : NumericKeys[j] \in DOMAIN r
RejectedBefore(r) ==
    IF BadTimestamp(r) THEN 0
    ELSE Cardinality({i \in 1..(FirstMissing(r) - 1) :
                         /\ ~FloatInput(r[NumericKeys[i]])
                         /\ ~BlankInput(r[NumericKeys[i]])})

\* C15: in bulk mode a record that lacks a required key, or whose
\* timestamp cannot be parsed, yields no output line, increments the error
\* counter (by one, on top of what the coercer counted for the fields it
\* rejected before the missing key), raises nothing to the caller, and the
\* run continues with the next record; the record is counted in the total
\* of rows read.
C15_MalformedRecord ==
    [][(ReadsRow /\ Malformed(row_read')) =>
          /\ row_count' = row_count + 1
          /\ row_count' \in no_line'
          /\ batch' = batch
          /\ sent' = sent
          /\ error_count' = error_count + 1 + RejectedBefore(row_read')
          /\ pc' = "read"]_vars

\* a record without the Volume key was read after a well-formed one: no
\* line, one error, and the run is back at reading
C15_Witness ==
    /\ mode = "bulk" /\ pc = "read"
    /\ row_read = NoVolumeKeyRow
    /\ row_count = 2 /\ no_line = {2}
    /\ error_count = 1
    /\ RowsOf(batch) = <<1>>

\* the sizes of the accumulator and of the payloads: the accumulator never
\* holds more than batch_size lines, every payload has between 1 and
\* batch_size lines, and only the final payload of a run can have fewer
\* than batch_size
BoundedBatches ==
    /\ Len(batch) <= batch_size
    /\ \A i \in 1..Len(sent) : Len(sent[i].rows) \in 1..batch_size
    /\ \A i \in 1..(Len(sent) - 1) : Len(sent[i].rows) = batch_size
    /\ (sent # <<>> /\ Len(sent[Len(sent)].rows) < batch_size) => pc = "done"
    /\ Sending => Len(data) \in 1..batch_size
    /\ pc = "send_batch" => Len(data) = batch_size

\* a send_batch call has returned and nothing was read since
JustSent == ~Sending /\ result \in {"ok", "failed"}

\* C16 as claimed: in bulk mode the accumulator never holds more than the
\* batch size, every payload has between 1 and that many lines, only the
\* final payload can have fewer, and the accumulator is empty right after
\* every delivery attempt whatever its outcome.
C16_AsClaimed ==
    mode = "bulk" =>
       /\ BoundedBatches
       /\ JustSent => batch = <<>>

\* C16 amended: the same bounds, and the accumulator is empty right after
\* every delivery attempt made inside the reading loop, whatever its
\* outcome; after the final flush at the end of the input it is not
\* cleared: it still holds the lines of the last payload (and is not used
\* again).
C16_Accumulator ==
    mode = "bulk" =>
       /\ BoundedBatches
       /\ (JustSent /\ pc = "read") => batch = <<>>
       /\ (JustSent /\ pc = "done") =>
             batch # <<>> /\ RowsOf(batch) = sent[Len(sent)].rows
       /\ JustSent => pc \in {"read", "done"}

\* the run is done after a full payload that was dropped and a partial one
\* that was accepted, whose lines are still in the accumulator
C16_Witness ==
    /\ mode = "bulk" /\ pc = "done"
    /\ Len(sent) = 2 /\ ~sent[1].ok /\ sent[2].ok
    /\ Len(sent[1].rows) = batch_size
    /\ Len(batch) = 1 /\ RowsOf(batch) = sent[2].rows

\* the close and the volume of a row whose fields are numbers or empty
\* (an empty field counts as 0.0)
CloseOf(r) == IF BlankInput(r.Close) THEN F(0) ELSE ParseFloat(r.Close.s).v
VolumeOf(r) == IF BlankInput(r.Volume) THEN F(0) ELSE ParseFloat(r.Volume.s).v

\* the last five entries of a sequence, oldest first
LastFive(q) == IF Len(q) <= 5 THEN q ELSE SubSeq(q, Len(q) - 4, Len(q))

\* the windows after a record is ingested: the record is the newest entry
\* and the oldest is evicted when there were five
FifoWindows ==
    /\ close_prices' = LastFive(Append(close_prices, CloseOf(row_read')))
    /\ volumes' = LastFive(Append(volumes, VolumeOf(row_read')))

\* the distance of an indicator value (in hundredths) from the quotient
\* num / den, in units of 1 / (100 den)
Off(x, num, den) == IF x.n * den >= 100 * num THEN x.n * den - 100 * num
                    ELSE 100 * num - x.n * den

\* the closes 1, 2, 3, 4, 5 with volumes all 10 give sma 3, momentum 4, vwap 3
Example ==
    (/\ close_prices = <<F(1), F(2), F(3), F(4), F(5)>>
     /\ volumes = <<F(10), F(10), F(10), F(10), F(10)>>) =>
       /\ Snapshot.sma = R2(300)
       /\ Snapshot.momentum = R2(400)
       /\ Snapshot.vwap = R2(300)

\* a record was ingested into the windows by this step
Ingests == ReadsRow /\ row_count' \notin no_line'

\* the values of the snapshot snap of a full window: momentum is the
\* newest close minus the oldest, vwap is None when the volumes sum to 0,
\* and sma and vwap are at most tol (in units of 1/200 of the divisor)
\* from the mean and from sum(close*volume)/sum(volume)
SnapshotValues(snap, tol) ==
    /\ snap.momentum = R2(100 * (close_prices[5].n - close_prices[1].n))
    /\ 2 * Off(snap.sma, SumN(close_prices), 5) <= tol * 5
    /\ snap.vwap = None <=> SumN(volumes) = 0
    /\ snap.vwap # None =>
          2 * Off(snap.vwap, SumProd(close_prices, volumes), SumN(volumes))
             <= tol * SumN(volumes)

\* the snapshot snap of the record just ingested is there when the window
\* is full, with those values
SnapshotOfWindow(snap, tol) ==
    /\ snap # None <=> Len(close_prices) = 5
    /\ snap # None => SnapshotValues(snap, tol) /\ Example

\* C17 as claimed: every snapshot is computed over exactly the last 5
\* ingested records in source order, the oldest evicted first: momentum is
\* the newest close minus the close ingested 4 records earlier, sma is the
\* mean of those 5 closes, vwap is the sum of close*volume over the sum of
\* volume of those 5 entries; closes 1..5 with volumes 10 give 3, 4, 3.
C17_AsClaimed ==
    /\ [](JustIngested => SnapshotOfWindow(Snapshot, 0))
    /\ [][Ingests => FifoWindows]_vars

\* C17 amended: the same windows, and the three values are those
\* quotients rounded to 2 decimal places (at most half a hundredth off).
C17_SnapshotOverLastFive ==
    /\ [](JustIngested => SnapshotOfWindow(Snapshot, 1))
    /\ [][Ingests => FifoWindows]_vars

\* six records ingested: the first was evicted, and the windows hold the
\* closes 1, 2, 3, 4, 5 with volumes all 10
C17_Witness ==
    /\ mode = "bulk" /\ row_count = 6 /\ no_line = {}
    /\ close_prices = <<F(1), F(2), F(3), F(4), F(5)>>
    /\ volumes = <<F(10), F(10), F(10), F(10), F(10)>>
    /\ Snapshot.sma = R2(300) /\ Snapshot.momentum = R2(400) /\ Snapshot.vwap = R2(300)

Windows == <<close_prices, volumes, high_prices, low_prices>>

\* C18: in bulk mode the four windows (close, volume, high, low) always
\* have the same length, at most 5, and a record that yields no output
\* line because of a bad timestamp or a missing key leaves all four
\* unchanged, so it does not count towards the 5-record gate and enters no
\* later snapshot: the length of the windows is the number of records that
\* yielded a line, up to 5.
C18_WindowsFrame ==
    /\ [](mode = "bulk" =>
            /\ Len(close_prices) <= window_size
            /\ Len(volumes) = Len(close_prices)
            /\ Len(high_prices) = Len(close_prices)
            /\ Len(low_prices) = Len(close_prices)
            /\ Len(close_prices) =
                  (IF row_count - Cardinality(no_line) < window_size
                   THEN row_count - Cardinality(no_line) ELSE window_size))
    /\ [][(ReadsRow /\ Malformed(row_read')) =>
             /\ Windows' = Windows
             /\ row_count' \in no_line']_vars

\* five records yielded lines and the windows are full; the sixth read,
\* which has no Volume key, left them as they were
C18_Witness ==
    /\ mode = "bulk" /\ pc = "read"
    /\ row_count = 6 /\ no_line = {6}
    /\ row_read = NoVolumeKeyRow
    /\ Len(close_prices) = window_size

\* the lines of the finished payloads the sink accepted (ok) or that were
\* dropped after the retries (~ok)
RECURSIVE LinesOf(_, _)
LinesOf(payloads, ok) ==
    IF payloads = <<>> THEN 0
    ELSE (IF payloads[1].ok = ok THEN Len(payloads[1].rows) ELSE 0)
         + LinesOf(Tail(payloads), ok)

\* C19: bulk-mode accounting is conserved: processed_count never
\* decreases, changes only when a payload gets a 204 and then by exactly
\* that payload's line count (so it is the number of lines of the accepted
\* payloads), and at the end of a run total rows read = processed_count +
\* lines in dropped batches + records that produced no line.
C19_Accounting ==
    /\ [](mode = "bulk" =>
            /\ processed_count = LinesOf(sent, TRUE)
            /\ pc = "done" =>
                  row_count = processed_count + LinesOf(sent, FALSE) + Cardinality(no_line))
    /\ [][mode = "bulk" =>
             /\ processed_count' >= processed_count
             /\ processed_count' # processed_count =>
                   /\ Sending
                   /\ resp' = Append(resp, TRUE)
                   /\ processed_count' = processed_count + Len(data)
                   /\ sent' = Append(sent, [rows |-> RowsOf(data), ok |-> TRUE])]_vars

\* a finished run in which a batch was accepted, a batch was dropped and a
\* record produced no line
C19_Witness ==
    /\ mode = "bulk" /\ pc = "done"
    /\ processed_count = batch_size
    /\ LinesOf(sent, FALSE) > 0
    /\ no_line # {}
    /\ row_count = MaxRows

\* the lines (row numbers) the sink has accepted in this run
Accepted ==
    IF mode = "bulk"
    THEN UNION {RowSet(sent[i].rows) : i \in {j \in 1..Len(sent) : sent[j].ok}}
    ELSE RowSet(acked)

\* a request is made by this step
Requests == Sending /\ Len(resp') = Len(resp) + 1

\* C20: within one run, in both modes, every encoded line is accepted
\* (204) by the sink at most once: no request carries a line of a payload
\* that was confirmed before, the accepted payloads share no line, and
\* each payload receives at most 3 requests, none after its 204.
C20_AtMostOnce ==
    /\ [](/\ Len(resp) <= max_retries
          /\ \A i \in 1..(Len(resp) - 1) : ~resp[i]
          /\ \A i, j \in 1..Len(sent) :
                (i # j /\ sent[i].ok) => RowSet(sent[i].rows) \cap RowSet(sent[j].rows) = {}
          /\ \A i, j \in 1..Len(acked) : i # j => acked[i] # acked[j]
          /\ \A i \in 1..Len(sent) : \A m, n \in 1..Len(sent[i].rows) :
                m # n => sent[i].rows[m] # sent[i].rows[n])
    /\ [][Requests => /\ RowSet(RowsOf(data)) \cap Accepted = {}
                      /\ data # <<>>
                      /\ resp' = Append(resp, TRUE) =>
                            Accepted' = Accepted \cup RowSet(RowsOf(data))]_vars

\* in simulation, the first record was confirmed and the second is being
\* retried after a failed request
C20_Witness ==
    /\ mode = "sim" /\ pc = "send_data"
    /\ acked = <<1>> /\ pos = 2
    /\ resp = <<FALSE>>
    /\ data[1].row = 2

====
